---- MODULE Spec2Model ----
(***************************************************************************)
(* Rusty Scout (src/src/main.rs): a recursive line search over a directory *)
(* tree.  FileSearcher::new compiles the pattern and parses the extension  *)
(* list, search_dir walks the tree, filters the files and scans them in    *)
(* parallel into one mutex-guarded vector, display_results highlights the  *)
(* matches.                                                                *)
(*                                                                         *)
(* Text is a sequence of bytes.  "a", "A", "t", "T", ".", ",", " " and "*" *)
(* are ASCII bytes, "NL" is the line feed, and "L" "M" are the lead and    *)
(* the continuation byte of one two-byte UTF-8 scalar (such as e-acute),   *)
(* which has no case.  Offsets are 0-based byte offsets, as in the source. *)
(***************************************************************************)
EXTENDS Integers, Sequences, FiniteSets, TLC

\* ------------------------------------------------------------ bounds
MaxPat == 2
MaxContent == 4
MaxName == 3
MaxExtArg == 2
NumFiles == 3

SeqsUpTo(S, n) == UNION {[1..k -> S] : k \in 0..n}

Range(s) == {s[i] : i \in 1..Len(s)}

\* ------------------------------------------------------------ strings
\* Whether a byte sequence is well-formed UTF-8 (what a String can hold).
IsUtf8(s) ==
    \A i \in 1..Len(s) :
        /\ s[i] = "L" => (i < Len(s) /\ s[i + 1] = "M")
        /\ s[i] = "M" => (i > 1 /\ s[i - 1] = "L")

\* str::is_char_boundary: 0 and len are boundaries, an index past len or on a
\* continuation byte is not.
is_char_boundary(s, i) ==
    \/ i = 0
    \/ i = Len(s)
    \/ (i > 0 /\ i < Len(s) /\ s[i + 1] # "M")

\* s[from..to], 0-based and half-open.
Slice(s, from, to) == SubSeq(s, from + 1, to)

\* str::to_lowercase on the model's alphabet: "A" and "T" have a lower case.
\* No scalar of the alphabet changes its byte length when lower-cased, so the
\* offsets found in the lower-cased line are offsets of the line itself.
to_lowercase(s) ==
    [i \in 1..Len(s) |-> IF s[i] = "A" THEN "a" ELSE IF s[i] = "T" THEN "t" ELSE s[i]]

\* str::find: the byte offset of the first occurrence of needle, -1 for None.
\* The empty needle is found at offset 0.
str_find(hay, needle) ==
    LET hits == {p \in 0..(Len(hay) - Len(needle)) :
                    Slice(hay, p, p + Len(needle)) = needle}
    IN IF hits = {} THEN -1 ELSE CHOOSE p \in hits : \A q \in hits : p <= q

\* str::trim on the model's alphabet: the only white space is " ".
RECURSIVE trim_start(_)
trim_start(s) ==
    IF s # <<>> /\ Head(s) = " " THEN trim_start(Tail(s)) ELSE s

RECURSIVE trim_end(_)
trim_end(s) ==
    IF s # <<>> /\ s[Len(s)] = " " THEN trim_end(SubSeq(s, 1, Len(s) - 1)) ELSE s

trim(s) == trim_end(trim_start(s))

\* str::split(sep): the pieces between the separators; the empty string
\* splits into one empty piece.
RECURSIVE split(_, _)
split(s, sep) ==
    LET hits == {i \in 1..Len(s) : s[i] = sep}
    IN IF hits = {} THEN <<s>>
       ELSE LET i == CHOOSE j \in hits : \A k \in hits : j <= k
            IN <<SubSeq(s, 1, i - 1)>> \o split(SubSeq(s, i + 1, Len(s)), sep)

\* str::lines: the pieces between line feeds, without a last empty piece.
RECURSIVE lines(_)
lines(contents) ==
    IF contents = <<>> THEN <<>>
    ELSE LET hits == {i \in 1..Len(contents) : contents[i] = "NL"}
         IN IF hits = {} THEN <<contents>>
            ELSE LET i == CHOOSE j \in hits : \A k \in hits : j <= k
                 IN <<SubSeq(contents, 1, i - 1)>>
                        \o lines(SubSeq(contents, i + 1, Len(contents)))

\* String::insert_str(idx, str): panics unless idx is a char boundary.
insert_str(s, idx, str) ==
    IF is_char_boundary(s, idx)
    THEN [panic |-> FALSE, s |-> Slice(s, 0, idx) \o str \o Slice(s, idx, Len(s))]
    ELSE [panic |-> TRUE, s |-> s]

\* ------------------------------------------------------------ regex crate
\* A compiled pattern is a sequence of atoms, each one scalar, starred or not.
\* Regex::new: "*" repeats the atom before it and is an error with nothing
\* before it; every other byte of the model's alphabet is a literal.
RECURSIVE ParseRegex(_, _, _)
ParseRegex(p, i, atoms) ==
    IF i > Len(p) THEN [ok |-> TRUE, atoms |-> atoms]
    ELSE IF p[i] = "*"
         THEN IF atoms = <<>> THEN [ok |-> FALSE, atoms |-> <<>>]
              ELSE ParseRegex(p, i + 1, [atoms EXCEPT ![Len(atoms)].star = TRUE])
         ELSE IF p[i] = "L"
              THEN ParseRegex(p, i + 2, Append(atoms, [c |-> <<"L", "M">>, star |-> FALSE]))
              ELSE ParseRegex(p, i + 1, Append(atoms, [c |-> <<p[i]>>, star |-> FALSE]))

Regex_new(pattern) == ParseRegex(pattern, 1, <<>>)

\* How many times c repeats in s from offset i.
RECURSIVE Reps(_, _, _)
Reps(c, s, i) ==
    IF i + Len(c) <= Len(s) /\ Slice(s, i, i + Len(c)) = c
    THEN 1 + Reps(c, s, i + Len(c))
    ELSE 0

\* The end of the match of atoms[k..] anchored at offset i that a greedy
\* backtracking (leftmost-first) search prefers, -1 when there is none.
RECURSIVE MatchAt(_, _, _, _)
RECURSIVE StarTry(_, _, _, _, _)
MatchAt(atoms, k, s, i) ==
    IF k > Len(atoms) THEN i
    ELSE LET c == atoms[k].c
         IN IF atoms[k].star THEN StarTry(atoms, k, s, i, Reps(c, s, i))
            ELSE IF i + Len(c) <= Len(s) /\ Slice(s, i, i + Len(c)) = c
                 THEN MatchAt(atoms, k + 1, s, i + Len(c))
                 ELSE -1

StarTry(atoms, k, s, i, j) ==
    LET r == MatchAt(atoms, k + 1, s, i + j * Len(atoms[k].c))
    IN IF r # -1 THEN r
       ELSE IF j = 0 THEN -1 ELSE StarTry(atoms, k, s, i, j - 1)

\* The leftmost match starting at or after offset at, <<-1, -1>> for None.  A
\* match never starts inside a scalar.
LeftmostFrom(atoms, s, at) ==
    LET hits == {p \in at..Len(s) :
                    is_char_boundary(s, p) /\ MatchAt(atoms, 1, s, p) # -1}
    IN IF hits = {} THEN <<-1, -1>>
       ELSE LET p == CHOOSE q \in hits : \A r \in hits : q <= r
            IN <<p, MatchAt(atoms, 1, s, p)>>

\* Regex::find_iter: successive non-overlapping matches; each search starts
\* where the last match ended, and an empty match at the end of the last
\* match is dropped for the next match starting one byte further.
RECURSIVE FindIter(_, _, _, _, _)
FindIter(atoms, s, at, last_end, acc) ==
    LET m1 == LeftmostFrom(atoms, s, at)
        m == IF m1[1] # -1 /\ m1[1] = m1[2] /\ m1[2] = last_end
             THEN LeftmostFrom(atoms, s, at + 1)
             ELSE m1
    IN IF m[1] = -1 THEN acc
       ELSE FindIter(atoms, s, m[2], m[2], Append(acc, m))

find_iter(atoms, s) == FindIter(atoms, s, 0, -1, <<>>)

\* ------------------------------------------------------------ FileSearcher
NoRegex == [some |-> FALSE, atoms |-> <<>>]

NoSearcher ==
    [pattern |-> <<>>, regex |-> NoRegex, ignore_case |-> FALSE, extensions |-> <<>>]

Contains(v, x) == \E i \in 1..Len(v) : v[i] = x

\* The literal search loop of search_file: slice from start, find, push, and
\* resume one byte after the start of the occurrence.  Slicing panics when
\* start is past the end or inside a scalar.
RECURSIVE LiteralLoop(_, _, _, _)
LiteralLoop(search_line, search_pattern, start, matches) ==
    IF ~is_char_boundary(search_line, start)
    THEN [panic |-> TRUE, matches |-> matches, start |-> start]
    ELSE LET pos == str_find(Slice(search_line, start, Len(search_line)), search_pattern)
         IN IF pos = -1
            THEN [panic |-> FALSE, matches |-> matches, start |-> start]
            ELSE LET abs_pos == start + pos
                 IN LiteralLoop(search_line, search_pattern, abs_pos + 1,
                                Append(matches, <<abs_pos, abs_pos + Len(search_pattern)>>))

\* The matches of one line: the regex's when there is one, else the literal
\* loop over the (lower-cased, when ignore_case) line and pattern.
line_matches(self, line) ==
    IF self.regex.some
    THEN [panic |-> FALSE, matches |-> find_iter(self.regex.atoms, line), start |-> 0]
    ELSE LET search_line == IF self.ignore_case THEN to_lowercase(line) ELSE line
             search_pattern ==
                 IF self.ignore_case THEN to_lowercase(self.pattern) ELSE self.pattern
         IN LiteralLoop(search_line, search_pattern, 0, <<>>)

\* The loop of search_file over the lines, n the 1-based line number.
RECURSIVE ScanLines(_, _, _, _, _)
ScanLines(self, path, ls, n, file_results) ==
    IF n > Len(ls) THEN [kind |-> "Ok", results |-> file_results]
    ELSE LET m == line_matches(self, ls[n])
         IN IF m.panic THEN [kind |-> "Panic", results |-> file_results]
            ELSE ScanLines(self, path, ls, n + 1,
                    IF m.matches # <<>>
                    THEN Append(file_results,
                                [file_path |-> path, line_number |-> n,
                                 line |-> ls[n], matches |-> m.matches])
                    ELSE file_results)

\* fs::read_to_string fails on a file that cannot be read or is not UTF-8.
read_to_string(file) ==
    IF file.readable /\ IsUtf8(file.contents)
    THEN [ok |-> TRUE, contents |-> file.contents]
    ELSE [ok |-> FALSE, contents |-> <<>>]

search_file(self, path, file) ==
    LET rd == read_to_string(file)
    IN IF ~rd.ok THEN [kind |-> "Err", results |-> <<>>]
       ELSE ScanLines(self, path, lines(rd.contents), 1, <<>>)

\* Path::extension of a file name: None without a ".", and None when the only
\* "." is the first byte; else the bytes after the last ".".
path_extension(name) ==
    LET dots == {i \in 1..Len(name) : name[i] = "."}
    IN IF dots = {} THEN [some |-> FALSE, ext |-> <<>>]
       ELSE LET last == CHOOSE i \in dots : \A j \in dots : j <= i
            IN IF last = 1 THEN [some |-> FALSE, ext |-> <<>>]
               ELSE [some |-> TRUE, ext |-> SubSeq(name, last + 1, Len(name))]

\* A faulty should_search_file: the extension compared without regard to case.
should_search_file_nocase(self, name) ==
    IF Contains(self.extensions, <<"*">>) THEN TRUE
    ELSE LET e == path_extension(name)
         IN e.some /\ \E i \in 1..Len(self.extensions) :
                        to_lowercase(self.extensions[i]) = to_lowercase(e.ext)

should_search_file(self, name) ==
    IF Contains(self.extensions, <<"*">>) THEN TRUE
    ELSE LET e == path_extension(name)
         IN e.some /\ Contains(self.extensions, e.ext)

\* The extension list of FileSearcher::new: the pieces between commas, trimmed.
parse_extensions(arg) ==
    LET pieces == split(arg, ",")
    IN [i \in 1..Len(pieces) |-> trim(pieces[i])]

\* The escape sequences display_results inserts.
HiOn == <<"ESC", "[", "3", "1", "m">>
HiOff == <<"ESC", "[", "0", "m">>

\* The highlight loop of display_results: the matches in reverse order, the
\* end marker at end and then the start marker at start, each into the line
\* as it then is.
RECURSIVE Highlight(_, _, _)
Highlight(line, matches, k) ==
    IF k = 0 THEN [panic |-> FALSE, s |-> line]
    ELSE LET a == insert_str(line, matches[k][2], HiOff)
         IN IF a.panic THEN a
            ELSE LET b == insert_str(a.s, matches[k][1], HiOn)
                 IN IF b.panic THEN b ELSE Highlight(b.s, matches, k - 1)

highlight_line(result) == Highlight(result.line, result.matches, Len(result.matches))

\* ------------------------------------------------------------ state
VARIABLES
    args,        \* the parsed command line: pattern, extensions, regex, ignore_case
    root,        \* what args.directory names: "dir", "file", "missing", "denied"
    tree,        \* the files under the root: id -> [name, contents, readable]
    searcher,    \* the FileSearcher's pattern, regex, ignore_case, extensions
    walked,      \* the ids of the files the walker yielded
    files,       \* the ids of the files search_dir collected
    task,        \* id -> the position of the file's scan task
    local,       \* id -> the results a task holds before it appends them
    results,     \* the shared vector self.results
    lock,        \* the id of the task that holds the mutex, 0 when free
    pc,          \* the position of main
    exit_code,   \* the exit status of the process, -1 while it runs
    output       \* what display_results printed

vars ==
    <<args, root, tree, searcher, walked, files, task, local, results, lock, pc,
      exit_code, output>>

Ids == DOMAIN tree

NoOutput == [kind |-> "nothing", items |-> <<>>]

\* ignore::Walk with hidden(true) over the root.  A directory yields itself
\* and its files whose name does not start with "."; a root that is a file
\* is yielded whatever its name (file 1 stands for it); a root that is missing
\* or cannot be read yields an error.  The tree holds no ignore files.
Hidden(name) == name # <<>> /\ name[1] = "."

walker(rt, tr) ==
    IF rt = "dir"
    THEN {[ok |-> TRUE, is_file |-> FALSE, id |-> 0]}
            \cup {[ok |-> TRUE, is_file |-> TRUE, id |-> f] :
                    f \in {g \in DOMAIN tr : ~Hidden(tr[g].name)}}
    ELSE IF rt = "file" THEN {[ok |-> TRUE, is_file |-> TRUE, id |-> 1]}
    ELSE IF rt = "denied"
         THEN {[ok |-> TRUE, is_file |-> FALSE, id |-> 0],
               [ok |-> FALSE, is_file |-> FALSE, id |-> 0]}
         ELSE {[ok |-> FALSE, is_file |-> FALSE, id |-> 0]}

\* A faulty extend: the vector replaced by the task's results (a lost update).
extend_overwrite(all_results, rs) == rs

\* all_results.extend(results)
extend(all_results, rs) == all_results \o rs

\* ------------------------------------------------------------ main
\* A faulty new: a pattern that does not compile is searched as a literal.
New_fallback ==
    /\ pc = "start"
    /\ LET re == IF args.regex THEN Regex_new(args.pattern)
                 ELSE [ok |-> TRUE, atoms |-> <<>>]
       IN searcher' = [pattern |-> args.pattern,
                       regex |-> [some |-> args.regex /\ re.ok, atoms |-> re.atoms],
                       ignore_case |-> args.ignore_case,
                       extensions |-> parse_extensions(args.extensions)]
    /\ pc' = "constructed"
    /\ UNCHANGED <<args, root, tree, walked, files, task, local, results, lock,
                   exit_code, output>>

\* FileSearcher::new, and main's "?" on its error.
New ==
    /\ pc = "start"
    /\ LET re == IF args.regex THEN Regex_new(args.pattern)
                 ELSE [ok |-> TRUE, atoms |-> <<>>]
       IN IF ~re.ok
          THEN /\ pc' = "exit"
               /\ exit_code' = 1
               /\ UNCHANGED searcher
          ELSE /\ searcher' = [pattern |-> args.pattern,
                               regex |-> [some |-> args.regex, atoms |-> re.atoms],
                               ignore_case |-> args.ignore_case,
                               extensions |-> parse_extensions(args.extensions)]
               /\ pc' = "constructed"
               /\ UNCHANGED exit_code
    /\ UNCHANGED <<args, root, tree, walked, files, task, local, results, lock, output>>

\* search_dir up to the parallel loop: the walk, the errors dropped, the
\* regular files kept, the extension filter, one task for each file.
Walk ==
    /\ pc = "constructed"
    /\ LET entries == walker(root, tree)
           ok_files == {e.id : e \in {x \in entries : x.ok /\ x.is_file}}
       IN /\ walked' = ok_files
          /\ files' = {f \in ok_files : should_search_file(searcher, tree[f].name)}
          /\ task' = [f \in Ids |->
                        IF f \in ok_files /\ should_search_file(searcher, tree[f].name)
                        THEN "pending" ELSE "none"]
    /\ pc' = "scanning"
    /\ UNCHANGED <<args, root, tree, searcher, local, results, lock, exit_code, output>>

\* One task of the parallel loop calls search_file: a panic ends the task, an
\* error or an empty list ends it with nothing to append.
TaskSearchFile(f) ==
    /\ pc = "scanning"
    /\ task[f] = "pending"
    /\ LET r == search_file(searcher, f, tree[f])
       IN IF r.kind = "Panic"
          THEN /\ task' = [task EXCEPT ![f] = "panicked"]
               /\ UNCHANGED local
          ELSE IF r.kind = "Err" \/ r.results = <<>>
               THEN /\ task' = [task EXCEPT ![f] = "done"]
                    /\ UNCHANGED local
               ELSE /\ task' = [task EXCEPT ![f] = "scanned"]
                    /\ local' = [local EXCEPT ![f] = r.results]
    /\ UNCHANGED <<args, root, tree, searcher, walked, files, results, lock, pc,
                   exit_code, output>>

\* self.results.lock()
TaskLock(f) ==
    /\ pc = "scanning"
    /\ task[f] = "scanned"
    /\ lock = 0
    /\ lock' = f
    /\ task' = [task EXCEPT ![f] = "locked"]
    /\ UNCHANGED <<args, root, tree, searcher, walked, files, local, results, pc,
                   exit_code, output>>

\* all_results.extend(results), and the guard dropped at the end of the block.
TaskExtend(f) ==
    /\ pc = "scanning"
    /\ task[f] = "locked"
    /\ lock = f
    /\ results' = extend(results, local[f])
    /\ local' = [local EXCEPT ![f] = <<>>]
    /\ lock' = 0
    /\ task' = [task EXCEPT ![f] = "done"]
    /\ UNCHANGED <<args, root, tree, searcher, walked, files, pc, exit_code, output>>

\* The end of for_each: every task has ended; a task's panic is raised again
\* in main (exit status 101), else search_dir returns Ok(()).
Join ==
    /\ pc = "scanning"
    /\ \A f \in Ids : task[f] \in {"none", "done", "panicked"}
    /\ IF \E f \in Ids : task[f] = "panicked"
       THEN pc' = "exit" /\ exit_code' = 101
       ELSE pc' = "searched" /\ UNCHANGED exit_code
    /\ UNCHANGED <<args, root, tree, searcher, walked, files, task, local, results,
                   lock, output>>

\* display_results: "No matches found." or each result with its line
\* highlighted; an insertion that panics ends the process.
RECURSIVE Rendered(_, _)
Rendered(rs, k) ==
    IF k > Len(rs) THEN <<>>
    ELSE <<[file_path |-> rs[k].file_path, line_number |-> rs[k].line_number,
            text |-> highlight_line(rs[k]).s]>> \o Rendered(rs, k + 1)

DisplayResults ==
    /\ pc = "searched"
    /\ IF results = <<>>
       THEN /\ output' = [kind |-> "no_matches", items |-> <<>>]
            /\ pc' = "displayed"
            /\ UNCHANGED exit_code
       ELSE IF \E k \in 1..Len(results) : highlight_line(results[k]).panic
            THEN /\ output' = [kind |-> "panic", items |-> <<>>]
                 /\ pc' = "exit"
                 /\ exit_code' = 101
            ELSE /\ output' = [kind |-> "matches", items |-> Rendered(results, 1)]
                 /\ pc' = "displayed"
                 /\ UNCHANGED exit_code
    /\ UNCHANGED <<args, root, tree, searcher, walked, files, task, local, results, lock>>

\* main returns Ok(()).
MainReturn ==
    /\ pc = "displayed"
    /\ pc' = "exit"
    /\ exit_code' = 0
    /\ UNCHANGED <<args, root, tree, searcher, walked, files, task, local, results,
                   lock, output>>

Next ==
    \/ New
    \/ Walk
    \/ \E f \in Ids : TaskSearchFile(f)
    \/ \E f \in Ids : TaskLock(f)
    \/ \E f \in Ids : TaskExtend(f)
    \/ Join
    \/ DisplayResults
    \/ MainReturn

\* ------------------------------------------------------------ inputs
PatternBytes == {"a", "A", "L", "M", "*"}
ContentBytes == {"a", "A", "L", "M", "NL"}
NameBytes == {"t", "T", "."}
ExtArgBytes == {"t", "T", ",", "*", " "}

\* A String holds UTF-8 only.
Patterns == {p \in SeqsUpTo(PatternBytes, MaxPat) : IsUtf8(p)}

\* File names: not empty, and not "." or "..".
Names == {n \in SeqsUpTo(NameBytes, MaxName) : n # <<>> /\ n # <<".">> /\ n # <<".", ".">>}

\* The state before main runs.
Start(a, rt, tr) ==
    /\ args = a
    /\ root = rt
    /\ tree = tr
    /\ searcher = NoSearcher
    /\ walked = {}
    /\ files = {}
    /\ task = [f \in DOMAIN tr |-> "none"]
    /\ local = [f \in DOMAIN tr |-> <<>>]
    /\ results = <<>>
    /\ lock = 0
    /\ pc = "start"
    /\ exit_code = -1
    /\ output = NoOutput

\* A whole run over a tree of NumFiles files: file f is named and filled by f.
RunName(f) ==
    IF f % 3 = 1 THEN <<"t", ".", "t">>
    ELSE IF f % 3 = 2 THEN <<"T", ".", "T">>
    ELSE <<"t", "t", ".", "t">>

RunContents(f) ==
    IF f % 3 = 1 THEN <<"a", "a", "NL", "A", "NL">>
    ELSE IF f % 3 = 2 THEN <<"a", "NL", "L", "M">>
    ELSE <<"L", "M", "a", "NL", "NL", "a", "A">>

RunPatterns == {<<"a">>, <<"a", "a">>, <<"L", "M">>, <<"*">>, <<"a", "*">>}

Init ==
    \E p \in RunPatterns, re \in BOOLEAN, ic \in BOOLEAN,
       ex \in {<<"*">>, <<"t">>}, rt \in {"dir", "file", "missing", "denied"},
       rd \in [1..NumFiles -> {"yes", "no", "binary"}] :
        Start([pattern |-> p, extensions |-> ex, regex |-> re, ignore_case |-> ic],
              rt,
              [f \in 1..NumFiles |->
                  [name |-> RunName(f),
                   contents |-> IF rd[f] = "binary" THEN <<"a", "M">> ELSE RunContents(f),
                   readable |-> rd[f] # "no"]])

Spec == Init /\ [][Next]_vars

\* One file of any contents, any pattern, both modes.
InitScan ==
    \E p \in Patterns, re \in BOOLEAN, ic \in BOOLEAN,
       c \in SeqsUpTo(ContentBytes, MaxContent) :
        Start([pattern |-> p, extensions |-> <<"*">>, regex |-> re, ignore_case |-> ic],
              "dir",
              [f \in 1..1 |-> [name |-> <<"t", ".", "t">>, contents |-> c,
                               readable |-> TRUE]])

SpecScan == InitScan /\ [][Next]_vars

\* One file of any name, any extension list; the root is its directory or
\* the file itself.
InitFilter ==
    \E n \in Names, ex \in SeqsUpTo(ExtArgBytes, MaxExtArg), rt \in {"dir", "file"} :
        Start([pattern |-> <<"a">>, extensions |-> ex, regex |-> FALSE,
               ignore_case |-> FALSE],
              rt,
              [f \in 1..1 |-> [name |-> n, contents |-> <<"a", "NL">>,
                               readable |-> TRUE]])

SpecFilter == InitFilter /\ [][Next]_vars

\* ------------------------------------------------------------ claims
ReadOk(f) == tree[f].readable /\ IsUtf8(tree[f].contents)

\* The task of file f has called search_file.
Scanned(f) == task[f] \in {"scanned", "locked", "done", "panicked"}

\* The records the scan of file f returned: held by the task, then in the
\* shared vector.
Produced(f) ==
    IF task[f] \in {"scanned", "locked"} THEN local[f]
    ELSE LET OfFile(r) == r.file_path = f IN SelectSeq(results, OfFile)

\* Every record there is: in the shared vector or held by a task.
AllRecords == Range(results) \cup UNION {Range(local[f]) : f \in Ids}

\* The spans recorded for line n of file f, none when the line has no record.
SpansOfLine(f, n) ==
    LET rs == Produced(f)
        hits == {k \in 1..Len(rs) : rs[k].line_number = n}
    IN IF hits = {} THEN <<>> ELSE rs[CHOOSE k \in hits : TRUE].matches

\* The byte offsets at which pat occurs in s.
Occ(s, pat) ==
    {p \in 0..(Len(s) - Len(pat)) : \A i \in 1..Len(pat) : s[p + i] = pat[i]}

CaseOf(s) == IF args.ignore_case THEN to_lowercase(s) ELSE s

LiteralSpansExact(f) ==
    \A n \in 1..Len(lines(tree[f].contents)) :
        LET m == SpansOfLine(f, n)
            sl == CaseOf(lines(tree[f].contents)[n])
            sp == CaseOf(args.pattern)
        IN /\ \A k \in 1..(Len(m) - 1) : m[k][1] < m[k + 1][1]
           /\ Range(m) = {<<p, p + Len(sp)>> : p \in Occ(sl, sp)}

\* C1: in literal mode with a non-empty pattern, the spans computed for each
\* line of a scanned file are, in strictly ascending order of start, exactly
\* one span (p, p + len(pattern)) for every offset p at which the (lower-cased,
\* when ignore_case) pattern occurs in the (lower-cased) line.
C1_LiteralSpans ==
    (~args.regex /\ args.pattern # <<>>) =>
        \A f \in Ids : (Scanned(f) /\ ReadOk(f)) =>
            (task[f] # "panicked" /\ LiteralSpansExact(f))

\* The same for the scans that return: the spans are exact whenever the
\* literal loop does not panic.
LiteralSpansWhenReturned ==
    (~args.regex /\ args.pattern # <<>>) =>
        \A f \in Ids : (Scanned(f) /\ ReadOk(f) /\ task[f] # "panicked") =>
            LiteralSpansExact(f)

\* Whether the pattern matches somewhere in the line.
LineHasMatch(line) ==
    IF args.regex
    THEN \E p \in 0..Len(line) :
            is_char_boundary(line, p) /\ MatchAt(Regex_new(args.pattern).atoms, 1, line, p) # -1
    ELSE Occ(CaseOf(line), CaseOf(args.pattern)) # {}

\* The number of lines of a text: its line feeds, and one more for a last
\* line without one.
LineCount(c) ==
    Cardinality({i \in 1..Len(c) : c[i] = "NL"})
        + (IF c # <<>> /\ c[Len(c)] # "NL" THEN 1 ELSE 0)

ScanResultExact(f) ==
    LET rs == Produced(f)
        ls == lines(tree[f].contents)
    IN /\ \A k \in 1..Len(rs) :
            /\ rs[k].file_path = f
            /\ rs[k].line_number \in 1..LineCount(tree[f].contents)
            /\ rs[k].line = ls[rs[k].line_number]
            /\ rs[k].matches # <<>>
       /\ \A k \in 1..(Len(rs) - 1) : rs[k].line_number < rs[k + 1].line_number
       /\ \A n \in 1..Len(ls) :
            LineHasMatch(ls[n]) <=> (\E k \in 1..Len(rs) : rs[k].line_number = n)

\* C2: search_file on a readable file returns one record for each line that
\* has a match and none for the others, in ascending line order, numbered
\* from 1, with the original line text and a non-empty span list; a trailing
\* line feed makes no extra line.
C2_SearchFileRecords ==
    \A f \in Ids : (Scanned(f) /\ ReadOk(f)) =>
        (task[f] # "panicked" /\ ScanResultExact(f))

\* The same for the scans that return.
SearchFileRecordsWhenReturned ==
    \A f \in Ids : (Scanned(f) /\ ReadOk(f) /\ task[f] # "panicked") =>
        ScanResultExact(f)

\* C4: in every record the spans never overlap: each span ends at or before
\* the start of the next.
C4_SpansDisjoint ==
    \A r \in AllRecords :
        \A k \in 1..(Len(r.matches) - 1) : r.matches[k][2] <= r.matches[k + 1][1]

\* C5: every span of every record, in literal and in regex mode, has
\* start < end.
C5_SpansNonEmpty ==
    \A r \in AllRecords :
        \A k \in 1..Len(r.matches) : r.matches[k][1] < r.matches[k][2]

\* The line with, before each byte offset, the end markers of the spans that
\* end there and then the start markers of the spans that start there.
MarkersAt(matches, p) ==
    LET Ends(k) == IF matches[k][2] = p /\ matches[k][1] < p THEN HiOff ELSE <<>>
        Starts(k) == IF matches[k][1] = p
                     THEN HiOn \o (IF matches[k][2] = p THEN HiOff ELSE <<>>)
                     ELSE <<>>
        RECURSIVE Cat(_, _)
        Cat(k, which) ==
            IF k > Len(matches) THEN <<>>
            ELSE (IF which = "end" THEN Ends(k) ELSE Starts(k)) \o Cat(k + 1, which)
    IN Cat(1, "end") \o Cat(1, "start")

RECURSIVE Delimited(_, _, _)
Delimited(line, matches, p) ==
    MarkersAt(matches, p)
        \o (IF p = Len(line) THEN <<>>
            ELSE <<line[p + 1]>> \o Delimited(line, matches, p + 1))

\* C9: display_results renders each record's line with a start marker at
\* each span's start offset and an end marker at its end offset of the
\* original line, every marker whole and the bytes of the line unchanged.
C9_HighlightDelimits ==
    /\ output.kind # "panic"
    /\ output.kind = "matches" =>
        \A k \in 1..Len(results) :
            output.items[k].text = Delimited(results[k].line, results[k].matches, 0)

\* The same for the records whose spans do not overlap.
HighlightDelimitsDisjoint ==
    /\ output.kind # "panic"
    /\ output.kind = "matches" =>
        \A k \in 1..Len(results) :
            (\A j \in 1..(Len(results[k].matches) - 1) :
                results[k].matches[j][2] <= results[k].matches[j + 1][1])
            => output.items[k].text = Delimited(results[k].line, results[k].matches, 0)

\* C10: in literal mode, for every line and every pattern including the
\* empty one, the search loop never fails: no scan task panics.
C10_LiteralLoopNeverFails ==
    ~args.regex => \A f \in Ids : task[f] # "panicked"

\* In regex mode no scan panics.
RegexScanNeverFails ==
    args.regex => \A f \in Ids : task[f] # "panicked"

\* search_dir has returned to main.
SearchDirReturned == pc \in {"searched", "displayed"} \/ (pc = "exit" /\ output # NoOutput)

\* The records of the collected files whose read succeeds.
ExpectedRecords ==
    UNION {Range(search_file(searcher, f, tree[f]).results) :
            f \in {g \in files : ReadOk(g)}}

\* C3: when search_dir returns, every scan task has ended and the shared
\* vector holds exactly the records of every collected file whose read
\* succeeded, each once, and nothing of a file whose read failed; a failed
\* read does not make the run end with an error.
C3_CollectExact ==
    /\ SearchDirReturned =>
        /\ \A f \in Ids : task[f] \in {"none", "done"}
        /\ lock = 0
        /\ Range(results) = ExpectedRecords
        /\ Len(results) = Cardinality(ExpectedRecords)
        /\ \A k \in 1..Len(results) : ReadOk(results[k].file_path)
    /\ (pc = "exit" /\ searcher # NoSearcher /\ \A f \in Ids : task[f] # "panicked")
            => exit_code = 0

\* Two files have put records into the vector and a third collected file
\* could not be read or decoded.
C3_Witness ==
    /\ SearchDirReturned
    /\ \E f \in files : ~ReadOk(f)
    /\ \E j, k \in 1..Len(results) : results[j].file_path # results[k].file_path

\* C7: when the target directory cannot be traversed (missing, unreadable,
\* not a directory) the run ends with an error and never reports "no
\* matches" or exits with status 0.
C7_BadRootIsFatal ==
    root # "dir" => (output.kind = "nothing" /\ exit_code # 0)

\* C8: in regex mode with a pattern that does not compile ("*" with nothing
\* to repeat), the run ends with an error before the traversal: no file is
\* ever enumerated or scanned and the result vector stays empty.
C8_InvalidRegexFatal ==
    (args.regex /\ args.pattern # <<>> /\ args.pattern[1] = "*") =>
        /\ pc \in {"start", "exit"}
        /\ pc = "exit" => exit_code = 1
        /\ walked = {} /\ files = {}
        /\ \A f \in Ids : task[f] = "none" /\ local[f] = <<>>
        /\ results = <<>>
        /\ output = NoOutput

\* The run has ended on the pattern that does not compile.
C8_Witness ==
    args.regex /\ args.pattern = <<"*">> /\ root = "dir" /\ pc = "exit" /\ exit_code = 1

\* The bytes after the final "." of a file name that has one.
HasDot(name) == \E i \in 1..Len(name) : name[i] = "."

AfterFinalDot(name) ==
    LET i == CHOOSE j \in 1..Len(name) :
                name[j] = "." /\ \A k \in (j + 1)..Len(name) : name[k] # "."
    IN SubSeq(name, i + 1, Len(name))

Wildcard == Contains(searcher.extensions, <<"*">>)

\* C6, as stated: a walked file is collected when the filter holds "*";
\* otherwise exactly when its name has a "." and the text after the final "."
\* is, case-sensitively, in the filter.
C6_FilterByFinalDot ==
    pc \notin {"start", "constructed"} =>
        \A f \in walked :
            f \in files <=>
                \/ Wildcard
                \/ /\ HasDot(tree[f].name)
                   /\ Contains(searcher.extensions, AfterFinalDot(tree[f].name))

\* C6, amended: a walked file is collected when the filter holds "*";
\* otherwise exactly when its name has a "." that is not only its first byte
\* and the text after the final "." is, case-sensitively, in the filter.
C6_FilterByExtension ==
    pc \notin {"start", "constructed"} =>
        \A f \in walked :
            f \in files <=>
                \/ Wildcard
                \/ /\ HasDot(tree[f].name)
                   /\ \E i \in 2..Len(tree[f].name) : tree[f].name[i] = "."
                   /\ Contains(searcher.extensions, AfterFinalDot(tree[f].name))

\* A file whose only "." is its first byte was walked and left out although
\* the text after the "." is in the filter, and no "*" is.
C6_Witness ==
    /\ pc \notin {"start", "constructed"}
    /\ ~Wildcard
    /\ \E f \in walked :
        /\ tree[f].name[1] = "."
        /\ \A i \in 2..Len(tree[f].name) : tree[f].name[i] # "."
        /\ Contains(searcher.extensions, AfterFinalDot(tree[f].name))
        /\ f \notin files

====
